---------------------------- MODULE Spec2Model ----------------------------
(***************************************************************************)
(* Model of sparql/v0.5/rdflib_tabular_dump.py: main() walks an RDF graph  *)
(* of DATS metadata with rdflib pattern queries, builds the Dataset ->     *)
(* Study -> StudyGroup -> Subject hierarchy, the per-subject               *)
(* characteristics and data files, and prints a tab-separated table.       *)
(*                                                                         *)
(* The graph is a set of triples <<s, p, o>>.  The order in which the      *)
(* store returns the matches of a pattern is not fixed by rdflib; it is    *)
(* modelled by the variable rev (ascending or descending store order).     *)
(* Python's None is the value None below; str() is the operator Str.       *)
(***************************************************************************)
EXTENDS Integers, Sequences, FiniteSets, TLC

\* ------------------------------------------------------------ vocabulary
\* The terms of rdflib_util (ru.*) that main() queries with.
RDF_TYPE_TERM == "rdf:type"
CENTRAL_ID_TERM == "obo:IAO_0000577"
SDO_IDENT_TERM == "sdo:identifier"
TITLE_TERM == "obo:OBI_0001622"
PRODUCED_BY_TERM == "obo:RO_0003001"
HAS_PART_TERM == "obo:BFO_0000051"
NAME_TERM == "obo:IAO_0000590"
HAS_MEMBER_TERM == "obo:RO_0002351"
HAS_QUALITY_TERM == "obo:RO_0000086"
DATA_ITEM_TERM == "obo:IAO_0000027"
SDO_VALUE_TERM == "sdo:value"
SDO_DISTRIBUTIONS_TERM == "sdo:distribution"
SDO_SIZE_TERM == "sdo:contentSize"
HAS_INPUT_TERM == "obo:RO_0002233"
DERIVES_FROM_TERM == "obo:RO_0001000"
DATS_DATASET_TERM == "obo:IAO_0000100"
DATS_STUDY_TERM == "obo:OBI_0000066"
DATS_STUDY_GROUP_TERM == "obo:STATO_0000193"
DATS_MATERIAL_TERM == "obo:BFO_0000040"
DATS_DIMENSION_TERM == "obo:STATO_0000258"
DATS_DATA_ACQUISITION_TERM == "obo:OBI_0600013"
SDO_DATA_DOWNLOAD_TERM == "sdo:DataDownload"
SDO_ANATOMICAL_STRUCTURE_TERM == "sdo:AnatomicalStructure"

\* titles (line 42)
GTEX_TITLE == "Genotype-Tissue Expression Project (GTEx)"
TOPMED_TITLE == "Trans-Omics for Precision Medicine (TOPMed)"
titles == <<GTEX_TITLE, TOPMED_TITLE>>

\* Python's None, and str(x)
None == "<None>"
Str(x) == IF x = None THEN "None" ELSE x

\* ------------------------------------------------------------ the inputs
\* A well-formed GTEx-like graph.  D1 is the top-level Dataset; D1 and D2
\* have an identifier and a Study; D2 and D3 carry data files of subject S1.
BaseGraph ==
    { <<"D1", RDF_TYPE_TERM, DATS_DATASET_TERM>>,
      <<"D2", RDF_TYPE_TERM, DATS_DATASET_TERM>>,
      <<"D3", RDF_TYPE_TERM, DATS_DATASET_TERM>>,
      <<"D1", TITLE_TERM, GTEX_TITLE>>,
      <<"D1", CENTRAL_ID_TERM, "I1">>, <<"I1", SDO_IDENT_TERM, "phs2">>,
      <<"D2", CENTRAL_ID_TERM, "I2">>, <<"I2", SDO_IDENT_TERM, "phs1">>,
      <<"D1", PRODUCED_BY_TERM, "ST1">>, <<"D2", PRODUCED_BY_TERM, "ST2">>,
      <<"ST1", RDF_TYPE_TERM, DATS_STUDY_TERM>>,
      <<"ST2", RDF_TYPE_TERM, DATS_STUDY_TERM>>,
      <<"ST1", HAS_PART_TERM, "G1">>, <<"ST1", HAS_PART_TERM, "G2">>,
      <<"ST2", HAS_PART_TERM, "G2">>,
      <<"G1", RDF_TYPE_TERM, DATS_STUDY_GROUP_TERM>>,
      <<"G2", RDF_TYPE_TERM, DATS_STUDY_GROUP_TERM>>,
      <<"G1", NAME_TERM, "GrpB">>, <<"G2", NAME_TERM, "GrpA">>,
      <<"G1", HAS_MEMBER_TERM, "S1">>, <<"G1", HAS_MEMBER_TERM, "S2">>,
      <<"G2", HAS_MEMBER_TERM, "S3">>,
      <<"S1", RDF_TYPE_TERM, DATS_MATERIAL_TERM>>,
      <<"S2", RDF_TYPE_TERM, DATS_MATERIAL_TERM>>,
      <<"S3", RDF_TYPE_TERM, DATS_MATERIAL_TERM>>,
      <<"S1", NAME_TERM, "SubB">>, <<"S2", NAME_TERM, "SubA">>,
      <<"S3", NAME_TERM, "SubC">>,
      \* characteristics
      <<"S1", HAS_QUALITY_TERM, "Q1">>, <<"S2", HAS_QUALITY_TERM, "Q2">>,
      <<"Q1", DATA_ITEM_TERM, "v1">>, <<"Q2", DATA_ITEM_TERM, "v2">>,
      <<"Q1", NAME_TERM, "NQ1">>, <<"NQ1", SDO_VALUE_TERM, "sex">>,
      <<"Q2", NAME_TERM, "NQ2">>, <<"NQ2", SDO_VALUE_TERM, "age">>,
      <<"Q1", CENTRAL_ID_TERM, "IQ1">>, <<"IQ1", SDO_IDENT_TERM, "phv1">>,
      <<"Q2", CENTRAL_ID_TERM, "IQ2">>, <<"IQ2", SDO_IDENT_TERM, "phv2">>,
      \* data files of D2
      <<"D2", HAS_PART_TERM, "DIM1">>,
      <<"DIM1", RDF_TYPE_TERM, DATS_DIMENSION_TERM>>,
      <<"DIM1", NAME_TERM, "NDIM">>, <<"NDIM", SDO_VALUE_TERM, "MD5">>,
      <<"DIM1", DATA_ITEM_TERM, "abc">>,
      <<"D2", SDO_DISTRIBUTIONS_TERM, "s3://bkt/wgs/f1">>,
      <<"D2", SDO_DISTRIBUTIONS_TERM, "gs://bkt/f1">>,
      <<"s3://bkt/wgs/f1", RDF_TYPE_TERM, SDO_DATA_DOWNLOAD_TERM>>,
      <<"gs://bkt/f1", RDF_TYPE_TERM, SDO_DATA_DOWNLOAD_TERM>>,
      <<"s3://bkt/wgs/f1", SDO_SIZE_TERM, "100">>,
      <<"D2", PRODUCED_BY_TERM, "ACQ1">>,
      <<"ACQ1", RDF_TYPE_TERM, DATS_DATA_ACQUISITION_TERM>>,
      <<"ACQ1", HAS_INPUT_TERM, "EX1">>, <<"EX1", DERIVES_FROM_TERM, "SA1">>,
      <<"SA1", DERIVES_FROM_TERM, "AP1">>, <<"SA1", DERIVES_FROM_TERM, "S1">>,
      \* data files of D3
      <<"D3", SDO_DISTRIBUTIONS_TERM, "s3://bkt/rnaseq/f2">>,
      <<"D3", SDO_DISTRIBUTIONS_TERM, "gs://bkt/f2">>,
      <<"s3://bkt/rnaseq/f2", RDF_TYPE_TERM, SDO_DATA_DOWNLOAD_TERM>>,
      <<"gs://bkt/f2", RDF_TYPE_TERM, SDO_DATA_DOWNLOAD_TERM>>,
      <<"s3://bkt/rnaseq/f2", SDO_SIZE_TERM, "200">>,
      <<"D3", PRODUCED_BY_TERM, "ACQ2">>,
      <<"ACQ2", RDF_TYPE_TERM, DATS_DATA_ACQUISITION_TERM>>,
      <<"ACQ2", HAS_INPUT_TERM, "EX2">>, <<"EX2", DERIVES_FROM_TERM, "SA2">>,
      <<"SA2", DERIVES_FROM_TERM, "AP1">>, <<"SA2", DERIVES_FROM_TERM, "S1">>,
      \* anatomical parts (AP2 and the two spare downloads are not linked)
      <<"AP1", RDF_TYPE_TERM, SDO_ANATOMICAL_STRUCTURE_TERM>>,
      <<"AP1", NAME_TERM, "Blood">>,
      <<"AP1", CENTRAL_ID_TERM, "AI1">>, <<"AI1", CENTRAL_ID_TERM, "UBERON1">>,
      <<"AP2", RDF_TYPE_TERM, SDO_ANATOMICAL_STRUCTURE_TERM>>,
      <<"AP2", NAME_TERM, "Lung">>,
      <<"AP2", CENTRAL_ID_TERM, "AI2">>, <<"AI2", CENTRAL_ID_TERM, "UBERON2">>,
      <<"s3://bkt/x/f3", RDF_TYPE_TERM, SDO_DATA_DOWNLOAD_TERM>>,
      <<"http://h/f4", RDF_TYPE_TERM, SDO_DATA_DOWNLOAD_TERM>> }

\* The changes an input may show against BaseGraph: each is a set of triples
\* that the input lacks (those in BaseGraph) or holds in addition.
Toggles ==
    << { <<"D1", TITLE_TERM, GTEX_TITLE>> },
       { <<"D1", TITLE_TERM, TOPMED_TITLE>> },
       { <<"D2", TITLE_TERM, GTEX_TITLE>> },
       { <<"D2", CENTRAL_ID_TERM, "I2">> },
       { <<"I1", SDO_IDENT_TERM, "phs3">> },
       { <<"D1", PRODUCED_BY_TERM, "ST2">> },
       { <<"D2", PRODUCED_BY_TERM, "ST2">> },
       { <<"G1", NAME_TERM, "GrpB">> },
       { <<"G1", NAME_TERM, "GrpC">> },
       { <<"S2", NAME_TERM, "SubA">> },
       { <<"S1", NAME_TERM, "SubZ">> },
       { <<"Q1", DATA_ITEM_TERM, "v1">> },
       { <<"Q1", DATA_ITEM_TERM, "v2">> },
       { <<"Q1", NAME_TERM, "NQ1">> },
       { <<"Q1", NAME_TERM, "NQ2">> },
       { <<"IQ1", SDO_IDENT_TERM, "phv1">> },
       { <<"IQ1", SDO_IDENT_TERM, "phv2">> },
       { <<"DIM1", DATA_ITEM_TERM, "abc">> },
       { <<"gs://bkt/f1", SDO_SIZE_TERM, "200">> },
       { <<"s3://bkt/rnaseq/f2", SDO_SIZE_TERM, "200">> },
       { <<"D2", SDO_DISTRIBUTIONS_TERM, "gs://bkt/f1">> },
       { <<"D2", SDO_DISTRIBUTIONS_TERM, "s3://bkt/wgs/f1">> },
       { <<"D2", SDO_DISTRIBUTIONS_TERM, "http://h/f4">> },
       { <<"D3", SDO_DISTRIBUTIONS_TERM, "s3://bkt/rnaseq/f2">> },
       { <<"D3", SDO_DISTRIBUTIONS_TERM, "s3://bkt/x/f3">> },
       { <<"D3", SDO_DISTRIBUTIONS_TERM, "s3://bkt/wgs/f1">> },
       { <<"D3", PRODUCED_BY_TERM, "ACQ2">> },
       { <<"D3", PRODUCED_BY_TERM, "ACQ1">> },
       { <<"SA1", DERIVES_FROM_TERM, "AP1">> },
       { <<"SA1", DERIVES_FROM_TERM, "AP2">> },
       { <<"AP1", NAME_TERM, "Blood">> },
       { <<"AI1", CENTRAL_ID_TERM, "UBERON1">> },
       { <<"AI1", CENTRAL_ID_TERM, "UBERON2">> },
       { <<"D1", TITLE_TERM, GTEX_TITLE>>, <<"D1", TITLE_TERM, TOPMED_TITLE>> },
       { <<"D2", PRODUCED_BY_TERM, "ACQ1">>, <<"D3", PRODUCED_BY_TERM, "ACQ2">> } >>

\* How many of the changes an input graph shows, at most.
MaxToggles == 2

\* The graph that differs from BaseGraph in the changes f[1], f[2], ... (0: none)
ToggleSet(f) == UNION { Toggles[f[i]] : i \in { j \in DOMAIN f : f[j] # 0 } }
ToggledGraph(f) == (BaseGraph \ ToggleSet(f)) \cup (ToggleSet(f) \ BaseGraph)
Ascending(f) ==
    \A i \in DOMAIN f : \A j \in DOMAIN f :
        i < j => (f[i] < f[j] \/ f[i] = 0)

\* The nodes and literals of the inputs, in the store's ascending order.
NodeList ==
    << "D1", "D2", "D3", "I1", "I2", "ST1", "ST2", "G1", "G2",
       "S1", "S2", "S3", "Q1", "Q2", "NQ1", "NQ2", "IQ1", "IQ2",
       "DIM1", "NDIM", "ACQ1", "ACQ2", "EX1", "EX2", "SA1", "SA2",
       "AP1", "AP2", "AI1", "AI2",
       "s3://bkt/wgs/f1", "gs://bkt/f1", "s3://bkt/rnaseq/f2", "gs://bkt/f2",
       "s3://bkt/x/f3", "http://h/f4",
       "phs1", "phs2", "phs3", "GrpA", "GrpB", "GrpC",
       "SubA", "SubB", "SubC", "SubZ", "v1", "v2", "age", "sex",
       "phv1", "phv2", "MD5", "abc", "100", "200",
       "Blood", "Lung", "UBERON1", "UBERON2" >>

\* The strings the program compares with <, in Python's (code point) order.
Lexicon ==
    << "100", "200", "Blood", "GrpA", "GrpB", "GrpC", "Lung", "RNA-Seq",
       "SubA", "SubB", "SubC", "SubZ", "UBERON1", "UBERON2", "WGS",
       "abc", "age", "gs://bkt/f1", "gs://bkt/f2", "http://h/f4",
       "phs1", "phs2", "phs3", "phv1", "phv2",
       "s3://bkt/rnaseq/f2", "s3://bkt/wgs/f1", "s3://bkt/x/f3",
       "sex", "v1", "v2" >>

\* A URI string as its scheme and its path segments: what the regular
\* expressions of lines 182, 248 and 250 look at.
UriParts ==
    ("s3://bkt/wgs/f1" :> <<"s3", "bkt", "wgs", "f1">>) @@
    ("s3://bkt/rnaseq/f2" :> <<"s3", "bkt", "rnaseq", "f2">>) @@
    ("s3://bkt/x/f3" :> <<"s3", "bkt", "x", "f3">>) @@
    ("gs://bkt/f1" :> <<"gs", "bkt", "f1">>) @@
    ("gs://bkt/f2" :> <<"gs", "bkt", "f2">>) @@
    ("http://h/f4" :> <<"http", "h", "f4">>)

VARIABLES graph, rev, pc, all_datasets, dataset_ids, datasets, tl_datasets,
          project_name, ds_to_study, study_to_groups, study_group_to_name,
          study_group_to_subjects, subject_to_name, subject_to_chars,
          all_char_names, sorted_char_names, subject_to_files, fidx, ridx,
          out, log, exit_code

vars == << graph, rev, pc, all_datasets, dataset_ids, datasets, tl_datasets,
           project_name, ds_to_study, study_to_groups, study_group_to_name,
           study_group_to_subjects, subject_to_name, subject_to_chars,
           all_char_names, sorted_char_names, subject_to_files, fidx, ridx,
           out, log, exit_code >>

\* ------------------------------------------------------------ helpers
EmptyDict == [x \in {} |-> x]
Last(s) == s[Len(s)]
Reverse(s) == [i \in 1..Len(s) |-> s[Len(s) + 1 - i]]
Range(s) == { s[i] : i \in DOMAIN s }

RECURSIVE Flatten(_)
Flatten(ss) == IF ss = <<>> THEN <<>> ELSE Head(ss) \o Flatten(Tail(ss))

\* g.triples((s, p, None)): the objects, in the order the store returns them
NodeListRev == Reverse(NodeList)
StoreOrder(rv) == IF rv THEN NodeListRev ELSE NodeList
Objects(G, rv, s, p) == SelectSeq(StoreOrder(rv), LAMBDA o : <<s, p, o>> \in G)
\* g.triples((None, p, o)): the subjects
Subjects(G, rv, p, o) == SelectSeq(StoreOrder(rv), LAMBDA s : <<s, p, o>> \in G)
\* g.triples((s, p, o)) yields one triple or none
Has(G, s, p, o) == <<s, p, o>> \in G
\* the objects reached over p1 and then p2, in visiting order
Objects2(G, rv, s, p1, p2) ==
    Flatten([i \in DOMAIN Objects(G, rv, s, p1) |->
                Objects(G, rv, Objects(G, rv, s, p1)[i], p2)])


\* Python's < on strings, and sorted()/list.sort(key=...): a stable sort
LexRank(x) == CHOOSE i \in DOMAIN Lexicon : Lexicon[i] = x

\* sort keys are tuples of lexicon ranks, compared left to right
RECURSIVE KeyLess(_, _)
KeyLess(a, b) ==
    IF a = <<>> \/ b = <<>> THEN FALSE
    ELSE IF Head(a) # Head(b) THEN Head(a) < Head(b)
    ELSE KeyLess(Tail(a), Tail(b))

RECURSIVE InsertSorted(_, _)
InsertSorted(x, s) ==
    IF s = <<>> THEN <<x>>
    ELSE IF KeyLess(x.key, Head(s).key) THEN <<x>> \o s
    ELSE <<Head(s)>> \o InsertSorted(x, Tail(s))

\* list.sort(key=...) on [key, item] records: ascending by key, and items
\* of equal keys keep the order they have in s
RECURSIVE StableSort(_)
StableSort(s) ==
    IF s = <<>> THEN <<>>
    ELSE InsertSorted(s[Len(s)], StableSort(SubSeq(s, 1, Len(s) - 1)))

Items(s) == [i \in DOMAIN s |-> s[i].item]

RECURSIVE SetToSeq(_)
SetToSeq(S) ==
    IF S = {} THEN <<>>
    ELSE LET x == CHOOSE y \in S : TRUE IN <<x>> \o SetToSeq(S \ {x})

\* str(n) for the counts the diagnostics print
NumStr(n) == <<"0", "1", "2", "3", "4", "5", "6", "7", "8", "9">>[n + 1]

\* ------------------------------------------------------------ lines 29-38
\* find ALL Datasets
FindAllDatasets(G, rv) == Subjects(G, rv, RDF_TYPE_TERM, DATS_DATASET_TERM)

\* dataset_ids[d] = o2: the last identifier visited
FindDatasetIds(G, rv, all) ==
    LET ids(d) == Objects2(G, rv, d, CENTRAL_ID_TERM, SDO_IDENT_TERM)
    IN  [d \in { x \in Range(all) : ids(x) # <<>> } |-> Last(ids(d))]

\* retain those with a DATS identifier
RetainIdentified(all, ids) == SelectSeq(all, LAMBDA d : d \in DOMAIN ids)

\* ------------------------------------------------------------ lines 40-55
\* the (Dataset, title) matches, in visiting order
TitleMatches(G, all) ==
    Flatten([i \in DOMAIN all |->
        Flatten([j \in DOMAIN titles |->
            IF Has(G, all[i], TITLE_TERM, titles[j])
            THEN << <<all[i], titles[j]>> >> ELSE <<>>])])

TopLevelDatasets(G, all) ==
    [i \in DOMAIN TitleMatches(G, all) |-> TitleMatches(G, all)[i][1]]

ProjectName(G, all) ==
    IF TitleMatches(G, all) = <<>> THEN None
    ELSE Last(TitleMatches(G, all))[2]

\* a variant that lets several top-level Datasets pass
TopLevelAbortsNoneOnly(tl) == Len(tl) = 0

\* if len(tl_datasets) != 1: fatal
TopLevelAborts(tl) == Len(tl) # 1

\* ------------------------------------------------------------ lines 57-65
\* link each Dataset to Study: the last Study visited
LinkStudies(G, rv, ds) ==
    LET studies(d) ==
            SelectSeq(Objects(G, rv, d, PRODUCED_BY_TERM),
                      LAMBDA o : Has(G, o, RDF_TYPE_TERM, DATS_STUDY_TERM))
    IN  [d \in { x \in Range(ds) : studies(x) # <<>> } |-> Last(studies(d))]

\* filter Datasets not linked to a study
RetainLinked(ds, d2s) == SelectSeq(ds, LAMBDA d : d \in DOMAIN d2s)

\* ------------------------------------------------------------ lines 67-81
\* the typed StudyGroups of a study, in visiting order
GroupsOf(G, rv, s) ==
    SelectSeq(Objects(G, rv, s, HAS_PART_TERM),
              LAMBDA o : Has(G, o, RDF_TYPE_TERM, DATS_STUDY_GROUP_TERM))

\* groups.append(o) if n_names == 1
NamedOnce(G, rv, o) == Len(Objects(G, rv, o, NAME_TERM)) = 1

LinkGroups(G, rv, d2s) ==
    [s \in { d2s[d] : d \in DOMAIN d2s } |->
        SelectSeq(GroupsOf(G, rv, s), LAMBDA o : NamedOnce(G, rv, o))]

\* study_group_to_name[o] = o3 for every name visited: the last one stays
GroupNames(G, rv, d2s) ==
    LET seen == UNION { Range(GroupsOf(G, rv, d2s[d])) : d \in DOMAIN d2s }
    IN  [o \in { x \in seen : Objects(G, rv, x, NAME_TERM) # <<>> } |->
            Last(Objects(G, rv, o, NAME_TERM))]

\* ------------------------------------------------------------ lines 83-93
MembersOf(G, rv, sg) ==
    SelectSeq(Objects(G, rv, sg, HAS_MEMBER_TERM),
              LAMBDA o : Has(G, o, RDF_TYPE_TERM, DATS_MATERIAL_TERM))

LinkSubjects(G, rv, g2n) == [sg \in DOMAIN g2n |-> MembersOf(G, rv, sg)]

\* subject_to_name[o] = o3: the last name visited; no entry without a name
SubjectNames(G, rv, g2n) ==
    LET seen == UNION { Range(MembersOf(G, rv, sg)) : sg \in DOMAIN g2n }
    IN  [o \in { x \in seen : Objects(G, rv, x, NAME_TERM) # <<>> } |->
            Last(Objects(G, rv, o, NAME_TERM))]

\* ------------------------------------------------------------ lines 95-141
\* a variant without lines 127-128: no None for a node that has no value
CharValuesAsFound(G, rv, q) == Objects(G, rv, q, DATA_ITEM_TERM)

\* char_values, with None appended when there is none (lines 116-117, 127-128)
CharValues(G, rv, q) ==
    IF Objects(G, rv, q, DATA_ITEM_TERM) = <<>> THEN <<None>>
    ELSE Objects(G, rv, q, DATA_ITEM_TERM)
CharNames(G, rv, q) == Objects2(G, rv, q, NAME_TERM, SDO_VALUE_TERM)
DbgapIds(G, rv, q) == Objects2(G, rv, q, CENTRAL_ID_TERM, SDO_IDENT_TERM)

\* line 130: the quality node is kept unless one of the three counts is not 1
CharKept(G, rv, q) ==
    /\ Len(CharValues(G, rv, q)) = 1
    /\ Len(CharNames(G, rv, q)) = 1
    /\ Len(DbgapIds(G, rv, q)) = 1

\* chars[cname] = {value, name}: a later node of the same name overwrites
SubjectChars(G, rv, s) ==
    LET kept == SelectSeq(Objects(G, rv, s, HAS_QUALITY_TERM),
                          LAMBDA q : CharKept(G, rv, q))
        cname(q) == Str(CharNames(G, rv, q)[1])
        lastOf(n) == Last(SelectSeq(kept, LAMBDA q : cname(q) = n))
    IN  [n \in { cname(kept[i]) : i \in DOMAIN kept } |->
            [value |-> Str(CharValues(G, rv, lastOf(n))[1]), name |-> n]]

CollectChars(G, rv, s2n) == [s \in DOMAIN s2n |-> SubjectChars(G, rv, s)]

AllCharNames(s2c) == UNION { DOMAIN s2c[s] : s \in DOMAIN s2c }

\* sorted(all_char_names.keys())
SortedCharNames(names) ==
    Items(StableSort([i \in DOMAIN SetToSeq(names) |->
        [key |-> <<LexRank(SetToSeq(names)[i])>>, item |-> SetToSeq(names)[i]]]))

\* ------------------------------------------------------------ lines 144-273
\* How a step ends: it goes on, logging.fatal + sys.exit(1), or an exception
\* that nothing catches.
NoAbort == [kind |-> "none", msg |-> "", arg |-> ""]
Fatal(m, a) == [kind |-> "fatal", msg |-> m, arg |-> a]
Raised(e) == [kind |-> "exception", msg |-> e, arg |-> ""]

Put(f, k, v) == [x \in DOMAIN f \cup {k} |-> IF x = k THEN v ELSE f[x]]

\* lines 152-166: "TBD", or the value of the last Dimension named "MD5"
Md5Checksum(G, rv, d) ==
    LET dims == SelectSeq(Objects(G, rv, d, HAS_PART_TERM),
                    LAMBDA o2 : Has(G, o2, RDF_TYPE_TERM, DATS_DIMENSION_TERM))
        name(o2) == IF Objects2(G, rv, o2, NAME_TERM, SDO_VALUE_TERM) = <<>>
                    THEN None
                    ELSE Str(Last(Objects2(G, rv, o2, NAME_TERM, SDO_VALUE_TERM)))
        value(o2) == IF Objects(G, rv, o2, DATA_ITEM_TERM) = <<>> THEN None
                     ELSE Str(Last(Objects(G, rv, o2, DATA_ITEM_TERM)))
        md5s == SelectSeq(dims, LAMBDA o2 : name(o2) = "MD5")
    IN  IF md5s = <<>> THEN "TBD" ELSE value(Last(md5s))

\* re.match(r'^(gs|s3):\/\/.*', uri): the scheme matched, or None
UriScheme(uri) ==
    IF uri \in DOMAIN UriParts /\ UriParts[uri][1] \in {"gs", "s3"}
    THEN UriParts[uri][1] ELSE None

\* re.search(r'\/wgs\/', uri), re.search(r'\/rnaseq/', uri): the segment is
\* in the path and another one follows it
UriHasDir(uri, seg) ==
    /\ uri \in DOMAIN UriParts
    /\ \E i \in 2..(Len(UriParts[uri]) - 1) : UriParts[uri][i] = seg

\* a variant that keeps the first size and never compares
ScanSizesUnchecked(sizes, file_size) ==
    [file_size |-> IF file_size = None /\ sizes # <<>> THEN Str(Head(sizes))
                   ELSE file_size,
     mismatch |-> FALSE]

\* lines 172-179: the sizes of one Distribution against file_size
RECURSIVE ScanSizes(_, _)
ScanSizes(sizes, file_size) ==
    IF sizes = <<>> THEN [file_size |-> file_size, mismatch |-> FALSE]
    ELSE IF file_size = None THEN ScanSizes(Tail(sizes), Str(Head(sizes)))
    ELSE IF file_size # Str(Head(sizes))
         THEN [file_size |-> file_size, mismatch |-> TRUE]
    ELSE ScanSizes(Tail(sizes), file_size)

\* lines 169-188: the Distributions of a Dataset, in visiting order
RECURSIVE ScanDistribs(_, _, _, _)
ScanDistribs(G, rv, os, st) ==
    IF os = <<>> THEN st
    ELSE LET o == Head(os)
             sz == ScanSizes(Objects(G, rv, o, SDO_SIZE_TERM), st.file_size)
             m == UriScheme(Str(o))
             keep == Has(G, o, RDF_TYPE_TERM, SDO_DATA_DOWNLOAD_TERM) /\ m # None
         IN  IF sz.mismatch THEN [st EXCEPT !.mismatch = TRUE]
             ELSE ScanDistribs(G, rv, Tail(os),
                    [file_size |-> sz.file_size,
                     mismatch |-> FALSE,
                     distribs |-> IF keep
                                  THEN Append(st.distribs,
                                         [URI |-> Str(o), size |-> sz.file_size])
                                  ELSE st.distribs,
                     gs_URI |-> IF keep /\ m = "gs" THEN Str(o) ELSE st.gs_URI,
                     s3_URI |-> IF keep /\ m # "gs" THEN Str(o) ELSE st.s3_URI])

Distributions(G, rv, d) ==
    ScanDistribs(G, rv, Objects(G, rv, d, SDO_DISTRIBUTIONS_TERM),
                 [file_size |-> None, mismatch |-> FALSE, distribs |-> <<>>,
                  gs_URI |-> None, s3_URI |-> None])

\* lines 190-195
DataAcquisitions(G, rv, d) ==
    SelectSeq(Objects(G, rv, d, PRODUCED_BY_TERM),
              LAMBDA o : Has(G, o, RDF_TYPE_TERM, DATS_DATA_ACQUISITION_TERM))

\* lines 203-209: the samples the inputs of the DataAcquisition derive from
SamplesOf(G, rv, data_acq) ==
    Objects2(G, rv, data_acq, HAS_INPUT_TERM, DERIVES_FROM_TERM)

\* lines 220-226: the distinct term ids, in the order first seen
RECURSIVE Distinct(_)
Distinct(s) ==
    IF s = <<>> THEN <<>>
    ELSE LET r == Distinct(SubSeq(s, 1, Len(s) - 1))
         IN  IF Last(s) \in Range(r) THEN r ELSE Append(r, Last(s))

TermIds(G, rv, o3) ==
    Distinct(Objects2(G, rv, o3, CENTRAL_ID_TERM, CENTRAL_ID_TERM))

TermName(G, rv, o3) ==
    IF Objects(G, rv, o3, NAME_TERM) = <<>> THEN None
    ELSE Str(Last(Objects(G, rv, o3, NAME_TERM)))

\* lines 226-229: the check of one AnatomicalPart; the message concatenates
\* term_name, which raises TypeError when it is None
TermIdCheck(G, rv, o3) ==
    IF Len(TermIds(G, rv, o3)) = 1 THEN NoAbort
    ELSE IF TermName(G, rv, o3) = None THEN Raised("TypeError")
    ELSE Fatal("found N term ids for AnatomicalPart",
               NumStr(Len(TermIds(G, rv, o3))))

\* lines 212-231: the AnatomicalParts of a sample, up to the first abort
RECURSIVE AnatomicalParts(_, _, _, _)
AnatomicalParts(G, rv, o3s, acc) ==
    IF o3s = <<>> THEN acc
    ELSE IF TermIdCheck(G, rv, Head(o3s)).kind # "none"
         THEN [acc EXCEPT !.abort = TermIdCheck(G, rv, Head(o3s))]
    ELSE AnatomicalParts(G, rv, Tail(o3s),
            [acc EXCEPT !.parts = Append(@, [name |-> TermName(G, rv, Head(o3s)),
                                             id |-> TermIds(G, rv, Head(o3s))[1]])])

\* a variant that takes every GTEx URI without /wgs/ for RNA-Seq
ClassifyByDefault(project, s3_URI) ==
    IF project = GTEX_TITLE
    THEN IF s3_URI = None THEN [datatype |-> None, abort |-> Raised("TypeError")]
         ELSE IF UriHasDir(s3_URI, "wgs")
              THEN [datatype |-> "WGS", abort |-> NoAbort]
         ELSE [datatype |-> "RNA-Seq", abort |-> NoAbort]
    ELSE IF s3_URI = None THEN [datatype |-> None, abort |-> Raised("TypeError")]
         ELSE [datatype |-> None,
               abort |-> Fatal("couldn't determine seq datatype from URI", s3_URI)]

\* lines 245-257: the datatype, or how the classification aborts.
\* re.search on a None s3_URI and the concatenation of None raise TypeError.
Classify(project, s3_URI) ==
    IF project = GTEX_TITLE
    THEN IF s3_URI = None THEN [datatype |-> None, abort |-> Raised("TypeError")]
         ELSE IF UriHasDir(s3_URI, "wgs")
              THEN [datatype |-> "WGS", abort |-> NoAbort]
         ELSE IF UriHasDir(s3_URI, "rnaseq")
              THEN [datatype |-> "RNA-Seq", abort |-> NoAbort]
         ELSE [datatype |-> None,
               abort |-> Fatal("couldn't parse seq type from URI", s3_URI)]
    ELSE IF s3_URI = None THEN [datatype |-> None, abort |-> Raised("TypeError")]
         ELSE [datatype |-> None,
               abort |-> Fatal("couldn't determine seq datatype from URI", s3_URI)]

\* lines 234-273: the derives-from targets of a sample, each given file_info
RECURSIVE LinkTargets(_, _, _, _, _)
LinkTargets(o3s, parts, ctx, cls, files) ==
    IF o3s = <<>> THEN [files |-> files, abort |-> NoAbort]
    ELSE LET o3 == Head(o3s)
             known == IF o3 \in DOMAIN files THEN files ELSE Put(files, o3, <<>>)
             file_info == [anatomical_part_name |-> parts[1].name,
                           anatomical_part_id |-> parts[1].id,
                           S3_URI |-> ctx.s3_URI,
                           GS_URI |-> ctx.gs_URI,
                           datatype |-> cls.datatype,
                           distribs |-> ctx.distribs,
                           file_size |-> ctx.file_size,
                           md5_checksum |-> ctx.md5_checksum]
         IN  IF Len(parts) # 1
             THEN [files |-> known,
                   abort |-> Fatal("found N AnatomicalParts for subject",
                                   NumStr(Len(parts)))]
             ELSE IF cls.abort.kind # "none"
             THEN [files |-> known, abort |-> cls.abort]
             ELSE LinkTargets(Tail(o3s), parts, ctx, cls,
                              Put(known, o3, Append(known[o3], file_info)))

\* lines 209-273 for one sample o2
LinkSample(G, rv, o2, ctx, files) ==
    LET targets == Objects(G, rv, o2, DERIVES_FROM_TERM)
        anat == AnatomicalParts(G, rv,
                    SelectSeq(targets, LAMBDA o3 :
                        Has(G, o3, RDF_TYPE_TERM, SDO_ANATOMICAL_STRUCTURE_TERM)),
                    [parts |-> <<>>, abort |-> NoAbort])
    IN  IF anat.abort.kind # "none" THEN [files |-> files, abort |-> anat.abort]
        ELSE LinkTargets(targets, anat.parts, ctx,
                         Classify(ctx.project_name, ctx.s3_URI), files)

RECURSIVE LinkSamples(_, _, _, _, _)
LinkSamples(G, rv, o2s, ctx, files) ==
    IF o2s = <<>> THEN [files |-> files, abort |-> NoAbort]
    ELSE LET r == LinkSample(G, rv, Head(o2s), ctx, files)
         IN  IF r.abort.kind # "none" THEN r
             ELSE LinkSamples(G, rv, Tail(o2s), ctx, r.files)

\* a variant that skips only a Dataset without any DataAcquisition
SkipsFileLinkingNoneOnly(data_acqs) == Len(data_acqs) = 0

\* line 197: if len(data_acqs) != 1: continue
SkipsFileLinking(data_acqs) == Len(data_acqs) # 1

\* one pass of the loop of line 145, for Dataset d
LinkDataset(G, rv, d, project, files) ==
    LET dist == Distributions(G, rv, d)
        data_acqs == DataAcquisitions(G, rv, d)
        ctx == [s3_URI |-> dist.s3_URI, gs_URI |-> dist.gs_URI,
                file_size |-> dist.file_size, distribs |-> dist.distribs,
                md5_checksum |-> Md5Checksum(G, rv, d),
                project_name |-> project]
    IN  IF dist.mismatch
        THEN [files |-> files, abort |-> Fatal("file size mismatch", "")]
        ELSE IF SkipsFileLinking(data_acqs) THEN [files |-> files, abort |-> NoAbort]
        ELSE LinkSamples(G, rv, SamplesOf(G, rv, data_acqs[1]), ctx, files)

\* ------------------------------------------------------------ lines 275-347
\* lines 276-281
ColHeadings(sorted_names) ==
    <<"Project", "dbGaP_Study", "Study_Group", "Subject_ID">> \o sorted_names
    \o <<"Anatomical_Part", "Anatomical_Part_ID">> \o <<"Datatype">>
    \o <<"File_Size", "MD5_Checksum">> \o <<"AWS_URI", "GCP_URI">>

\* "\t".join(cols) raises TypeError when a column is None.  A printed line
\* is modelled by its fields.
JoinRaises(cols) == \E i \in DOMAIN cols : cols[i] = None

SortKey(ranks, x) == [key |-> ranks, item |-> x]
Rank0(x) == IF x = None THEN 0 ELSE LexRank(x)

\* line 285: datasets.sort(key=lambda x: dataset_ids[x])
SortDatasets(ds, ids) ==
    Items(StableSort([i \in DOMAIN ds |->
        SortKey(<<LexRank(Str(ids[ds[i]]))>>, ds[i])]))

\* line 292: groups.sort(key=lambda x: study_group_to_name[x])
SortGroups(groups, g2n) ==
    Items(StableSort([i \in DOMAIN groups |->
        SortKey(<<LexRank(Str(g2n[groups[i]]))>>, groups[i])]))

\* line 298: subjects.sort(key=lambda x: subject_to_name[x]); the key raises
\* KeyError for a subject that has no name
SortSubjectsRaises(subjects, s2n) ==
    \E i \in DOMAIN subjects : subjects[i] \notin DOMAIN s2n
SortSubjects(subjects, s2n) ==
    Items(StableSort([i \in DOMAIN subjects |->
        SortKey(<<LexRank(Str(s2n[subjects[i]]))>>, subjects[i])]))

\* line 321: the key of a data file
FileKey(d) == <<d.anatomical_part_name, d.datatype, d.S3_URI>>

\* comparing two key tuples raises TypeError when the first fields they
\* differ in are None and a string
RECURSIVE KeysRaise(_, _)
KeysRaise(a, b) ==
    IF a = <<>> THEN FALSE
    ELSE IF Head(a) = Head(b) THEN KeysRaise(Tail(a), Tail(b))
    ELSE Head(a) = None \/ Head(b) = None

SortFilesRaises(fs) ==
    \E i \in DOMAIN fs : \E j \in DOMAIN fs : KeysRaise(FileKey(fs[i]), FileKey(fs[j]))

\* a variant that leaves the data files in the order they were linked
SortFilesUnsorted(fs) == fs

\* line 321: data_files.sort(key=...)
SortFiles(fs) ==
    Items(StableSort([i \in DOMAIN fs |->
        SortKey(<<Rank0(fs[i].anatomical_part_name), Rank0(fs[i].datatype),
                  Rank0(fs[i].S3_URI)>>, fs[i])]))

\* lines 329-345: the columns a data file adds
FileCols(d) ==
    <<d.anatomical_part_name, d.anatomical_part_id, d.datatype,
      d.file_size, d.md5_checksum, d.S3_URI, d.GS_URI>>

\* a variant that appends nothing for a characteristic the subject lacks
CharColsPresentOnly(sorted_names, subject_chars) ==
    LET present == SelectSeq(sorted_names, LAMBDA k : k \in DOMAIN subject_chars)
    IN  [i \in DOMAIN present |-> subject_chars[present[i]].value]

\* lines 304-309: the value of each characteristic column, "" when absent
CharCols(sorted_names, subject_chars) ==
    [i \in DOMAIN sorted_names |->
        IF sorted_names[i] \in DOMAIN subject_chars
        THEN subject_chars[sorted_names[i]].value ELSE ""]

\* lines 312-315: the columns that fill a line up to the headings
Padding(n_extra_cols) == [c \in 1..n_extra_cols |-> ""]

\* lines 323-347: a line per data file, up to the first join that raises
RECURSIVE PrintFiles(_, _, _, _)
PrintFiles(fs, col_vals, src, acc) ==
    IF fs = <<>> THEN acc
    ELSE IF JoinRaises(col_vals \o FileCols(Head(fs)))
         THEN [acc EXCEPT !.abort = Raised("TypeError")]
    ELSE PrintFiles(Tail(fs), col_vals, src,
            [acc EXCEPT !.lines = Append(@, col_vals \o FileCols(Head(fs))),
                        !.srcs = Append(@, src)])

\* lines 299-347 for one subject s of group g of Dataset d.  env holds the
\* tables built before; acc the lists sorted in place, the lines printed
\* and how the run stands.
RenderSubject(env, d, g, s, acc) ==
    LET col_vals == <<env.project_name, env.dataset_ids[d],
                      env.study_group_to_name[g], env.subject_to_name[s]>>
                    \o CharCols(env.sorted_char_names, env.subject_to_chars[s])
        n_extra_cols == Len(ColHeadings(env.sorted_char_names)) - Len(col_vals)
        data_files == acc.subject_to_files[s]
    IN  IF s \notin DOMAIN acc.subject_to_files
        THEN [acc EXCEPT !.lines = Append(@, col_vals \o Padding(n_extra_cols)),
                         !.srcs = Append(@, <<d, g, s>>)]
        ELSE IF SortFilesRaises(data_files)
        THEN [acc EXCEPT !.abort = Raised("TypeError")]
        ELSE PrintFiles(SortFiles(data_files), col_vals, <<d, g, s>>,
                [acc EXCEPT !.subject_to_files[s] = SortFiles(data_files)])

RECURSIVE RenderSubjects(_, _, _, _, _)
RenderSubjects(env, d, g, ss, acc) ==
    IF ss = <<>> \/ acc.abort.kind # "none" THEN acc
    ELSE RenderSubjects(env, d, g, Tail(ss), RenderSubject(env, d, g, Head(ss), acc))

\* lines 293-347 for one group g of Dataset d
RenderGroup(env, d, g, acc) ==
    LET subjects == acc.study_group_to_subjects[g]
    IN  IF SortSubjectsRaises(subjects, env.subject_to_name)
        THEN [acc EXCEPT !.abort = Raised("KeyError")]
        ELSE RenderSubjects(env, d, g, SortSubjects(subjects, env.subject_to_name),
                [acc EXCEPT !.study_group_to_subjects[g] =
                                SortSubjects(subjects, env.subject_to_name)])

RECURSIVE RenderGroups(_, _, _, _)
RenderGroups(env, d, gs, acc) ==
    IF gs = <<>> \/ acc.abort.kind # "none" THEN acc
    ELSE RenderGroups(env, d, Tail(gs), RenderGroup(env, d, Head(gs), acc))

\* lines 286-347 for one Dataset d
RenderDataset(env, d, acc) ==
    LET study == env.ds_to_study[d]
        groups == SortGroups(acc.study_to_groups[study], env.study_group_to_name)
    IN  RenderGroups(env, d, groups, [acc EXCEPT !.study_to_groups[study] = groups])

\* ------------------------------------------------------------ the run
\* exit_code while main() has not returned or exited
Running == -1

TopLevelFatal(tl) == Fatal("found N top-level DATS Datasets", NumStr(Len(tl)))

\* the tables the renderer reads (lines 286-309)
Env == [project_name |-> project_name, dataset_ids |-> dataset_ids,
        ds_to_study |-> ds_to_study,
        study_group_to_name |-> study_group_to_name,
        subject_to_name |-> subject_to_name,
        subject_to_chars |-> subject_to_chars,
        sorted_char_names |-> sorted_char_names]

Init ==
    /\ \E f \in [1..MaxToggles -> 0..Len(Toggles)] :
          Ascending(f) /\ graph = ToggledGraph(f)
    /\ rev \in BOOLEAN
    /\ pc = "find_datasets"
    /\ all_datasets = <<>> /\ dataset_ids = EmptyDict /\ datasets = <<>>
    /\ tl_datasets = <<>> /\ project_name = None
    /\ ds_to_study = EmptyDict /\ study_to_groups = EmptyDict
    /\ study_group_to_name = EmptyDict /\ study_group_to_subjects = EmptyDict
    /\ subject_to_name = EmptyDict /\ subject_to_chars = EmptyDict
    /\ all_char_names = {} /\ sorted_char_names = <<>>
    /\ subject_to_files = EmptyDict
    /\ fidx = 0 /\ ridx = 0
    /\ out = <<>> /\ log = <<>> /\ exit_code = Running

\* lines 29-38
FindDatasets ==
    /\ pc = "find_datasets"
    /\ all_datasets' = FindAllDatasets(graph, rev)
    /\ dataset_ids' = FindDatasetIds(graph, rev, all_datasets')
    /\ datasets' = RetainIdentified(all_datasets', dataset_ids')
    /\ pc' = "top_level"
    /\ UNCHANGED << graph, rev, tl_datasets, project_name, ds_to_study,
                    study_to_groups, study_group_to_name,
                    study_group_to_subjects, subject_to_name, subject_to_chars,
                    all_char_names, sorted_char_names, subject_to_files,
                    fidx, ridx, out, log, exit_code >>

\* lines 40-55
TopLevel ==
    /\ pc = "top_level"
    /\ tl_datasets' = TopLevelDatasets(graph, all_datasets)
    /\ project_name' = ProjectName(graph, all_datasets)
    /\ IF TopLevelAborts(tl_datasets')
       THEN /\ log' = Append(log, TopLevelFatal(tl_datasets'))
            /\ exit_code' = 1
            /\ pc' = "exited"
       ELSE /\ pc' = "link_studies"
            /\ UNCHANGED << log, exit_code >>
    /\ UNCHANGED << graph, rev, all_datasets, dataset_ids, datasets,
                    ds_to_study, study_to_groups, study_group_to_name,
                    study_group_to_subjects, subject_to_name, subject_to_chars,
                    all_char_names, sorted_char_names, subject_to_files,
                    fidx, ridx, out >>

\* lines 57-65
LinkStudy ==
    /\ pc = "link_studies"
    /\ ds_to_study' = LinkStudies(graph, rev, datasets)
    /\ datasets' = RetainLinked(datasets, ds_to_study')
    /\ pc' = "link_groups"
    /\ UNCHANGED << graph, rev, all_datasets, dataset_ids, tl_datasets,
                    project_name, study_to_groups, study_group_to_name,
                    study_group_to_subjects, subject_to_name, subject_to_chars,
                    all_char_names, sorted_char_names, subject_to_files,
                    fidx, ridx, out, log, exit_code >>

\* lines 67-81
LinkGroup ==
    /\ pc = "link_groups"
    /\ study_to_groups' = LinkGroups(graph, rev, ds_to_study)
    /\ study_group_to_name' = GroupNames(graph, rev, ds_to_study)
    /\ pc' = "link_subjects"
    /\ UNCHANGED << graph, rev, all_datasets, dataset_ids, datasets,
                    tl_datasets, project_name, ds_to_study,
                    study_group_to_subjects, subject_to_name, subject_to_chars,
                    all_char_names, sorted_char_names, subject_to_files,
                    fidx, ridx, out, log, exit_code >>

\* lines 83-93
LinkSubject ==
    /\ pc = "link_subjects"
    /\ study_group_to_subjects' = LinkSubjects(graph, rev, study_group_to_name)
    /\ subject_to_name' = SubjectNames(graph, rev, study_group_to_name)
    /\ pc' = "characteristics"
    /\ UNCHANGED << graph, rev, all_datasets, dataset_ids, datasets,
                    tl_datasets, project_name, ds_to_study, study_to_groups,
                    study_group_to_name, subject_to_chars, all_char_names,
                    sorted_char_names, subject_to_files, fidx, ridx, out, log,
                    exit_code >>

\* lines 95-142
Characteristics ==
    /\ pc = "characteristics"
    /\ subject_to_chars' = CollectChars(graph, rev, subject_to_name)
    /\ all_char_names' = AllCharNames(subject_to_chars')
    /\ sorted_char_names' = SortedCharNames(all_char_names')
    /\ fidx' = 1
    /\ pc' = "data_files"
    /\ UNCHANGED << graph, rev, all_datasets, dataset_ids, datasets,
                    tl_datasets, project_name, ds_to_study, study_to_groups,
                    study_group_to_name, study_group_to_subjects,
                    subject_to_name, subject_to_files, ridx, out, log,
                    exit_code >>

\* lines 144-273: one pass of the loop, for all_datasets[fidx]
LinkFiles ==
    /\ pc = "data_files"
    /\ fidx <= Len(all_datasets)
    /\ LET r == LinkDataset(graph, rev, all_datasets[fidx], project_name,
                            subject_to_files)
       IN  /\ subject_to_files' = r.files
           /\ IF r.abort.kind # "none"
              THEN /\ log' = Append(log, r.abort)
                   /\ exit_code' = 1
                   /\ pc' = "exited"
                   /\ fidx' = fidx
              ELSE /\ fidx' = fidx + 1
                   /\ UNCHANGED << log, exit_code, pc >>
    /\ UNCHANGED << graph, rev, all_datasets, dataset_ids, datasets,
                    tl_datasets, project_name, ds_to_study, study_to_groups,
                    study_group_to_name, study_group_to_subjects,
                    subject_to_name, subject_to_chars, all_char_names,
                    sorted_char_names, ridx, out >>

\* lines 275-285: the heading line, and the Datasets sorted
PrintHeader ==
    /\ pc = "data_files"
    /\ fidx > Len(all_datasets)
    /\ out' = Append(out, [src |-> <<>>, cols |-> ColHeadings(sorted_char_names)])
    /\ datasets' = SortDatasets(datasets, dataset_ids)
    /\ ridx' = 1
    /\ pc' = "render"
    /\ UNCHANGED << graph, rev, all_datasets, dataset_ids, tl_datasets,
                    project_name, ds_to_study, study_to_groups,
                    study_group_to_name, study_group_to_subjects,
                    subject_to_name, subject_to_chars, all_char_names,
                    sorted_char_names, subject_to_files, fidx, log, exit_code >>

\* the lists the renderer sorts in place, and what it has printed
Acc0(s2g, g2s, s2f) ==
    [study_to_groups |-> s2g, study_group_to_subjects |-> g2s,
     subject_to_files |-> s2f, lines |-> <<>>, srcs |-> <<>>, abort |-> NoAbort]

\* the lines printed, each with the (Dataset, group, subject) it is about
Printed(acc) == [i \in DOMAIN acc.lines |-> [src |-> acc.srcs[i], cols |-> acc.lines[i]]]

\* lines 286-347: one pass of the loop, for datasets[ridx]
Render ==
    /\ pc = "render"
    /\ ridx <= Len(datasets)
    /\ LET r == RenderDataset(Env, datasets[ridx],
                    Acc0(study_to_groups, study_group_to_subjects,
                         subject_to_files))
       IN  /\ study_to_groups' = r.study_to_groups
           /\ study_group_to_subjects' = r.study_group_to_subjects
           /\ subject_to_files' = r.subject_to_files
           /\ out' = out \o Printed(r)
           /\ IF r.abort.kind # "none"
              THEN /\ log' = Append(log, r.abort)
                   /\ exit_code' = 1
                   /\ pc' = "exited"
                   /\ ridx' = ridx
              ELSE /\ ridx' = ridx + 1
                   /\ UNCHANGED << log, exit_code, pc >>
    /\ UNCHANGED << graph, rev, all_datasets, dataset_ids, datasets,
                    tl_datasets, project_name, ds_to_study,
                    study_group_to_name, subject_to_name, subject_to_chars,
                    all_char_names, sorted_char_names, fidx >>

\* main() returns after the last Dataset: exit code 0
Finish ==
    /\ pc = "render"
    /\ ridx > Len(datasets)
    /\ exit_code' = 0
    /\ pc' = "exited"
    /\ UNCHANGED << graph, rev, all_datasets, dataset_ids, datasets,
                    tl_datasets, project_name, ds_to_study, study_to_groups,
                    study_group_to_name, study_group_to_subjects,
                    subject_to_name, subject_to_chars, all_char_names,
                    sorted_char_names, subject_to_files, fidx, ridx, out, log >>

Next ==
    \/ FindDatasets
    \/ TopLevel
    \/ LinkStudy
    \/ LinkGroup
    \/ LinkSubject
    \/ Characteristics
    \/ LinkFiles
    \/ PrintHeader
    \/ Render
    \/ Finish

Spec == Init /\ [][Next]_vars

\* ------------------------------------------------------------ a whole run
\* The loops of lines 145 and 286 run to their end or to the first abort.
RECURSIVE LinkAll(_, _, _, _, _)
LinkAll(G, rv, ds, project, files) ==
    IF ds = <<>> THEN [files |-> files, abort |-> NoAbort]
    ELSE LET r == LinkDataset(G, rv, Head(ds), project, files)
         IN  IF r.abort.kind # "none" THEN r
             ELSE LinkAll(G, rv, Tail(ds), project, r.files)

RECURSIVE RenderAll(_, _, _)
RenderAll(env, ds, acc) ==
    IF ds = <<>> \/ acc.abort.kind # "none" THEN acc
    ELSE RenderAll(env, Tail(ds), RenderDataset(env, Head(ds), acc))

\* What main() prints, logs and exits with on graph G when the store
\* returns matches in the order rv: the stages above, one after the other.
FullRun(G, rv) ==
    LET all == FindAllDatasets(G, rv)
        ids == FindDatasetIds(G, rv, all)
        tl == TopLevelDatasets(G, all)
        project == ProjectName(G, all)
        d2s == LinkStudies(G, rv, RetainIdentified(all, ids))
        ds == RetainLinked(RetainIdentified(all, ids), d2s)
        g2n == GroupNames(G, rv, d2s)
        s2n == SubjectNames(G, rv, g2n)
        s2c == CollectChars(G, rv, s2n)
        names == SortedCharNames(AllCharNames(s2c))
        linked == LinkAll(G, rv, all, project, EmptyDict)
        env == [project_name |-> project, dataset_ids |-> ids,
                ds_to_study |-> d2s, study_group_to_name |-> g2n,
                subject_to_name |-> s2n, subject_to_chars |-> s2c,
                sorted_char_names |-> names]
        rendered == RenderAll(env, SortDatasets(ds, ids),
                        Acc0(LinkGroups(G, rv, d2s), LinkSubjects(G, rv, g2n),
                             linked.files))
    IN  IF TopLevelAborts(tl)
        THEN [out |-> <<>>, log |-> <<TopLevelFatal(tl)>>, exit_code |-> 1]
        ELSE IF linked.abort.kind # "none"
        THEN [out |-> <<>>, log |-> <<linked.abort>>, exit_code |-> 1]
        ELSE IF rendered.abort.kind # "none"
        THEN [out |-> <<ColHeadings(names)>> \o rendered.lines,
              log |-> <<rendered.abort>>, exit_code |-> 1]
        ELSE [out |-> <<ColHeadings(names)>> \o rendered.lines,
              log |-> <<>>, exit_code |-> 0]

\* the lines on standard output, without the history field src
OutLines == [i \in DOMAIN out |-> out[i].cols]
\* the data rows: the lines after the heading line
Rows == SubSeq(out, 2, Len(out))
Exited == pc = "exited"

\* The steps agree with the composition of the stages.
RunIsFullRun ==
    Exited => [out |-> OutLines, log |-> log, exit_code |-> exit_code]
                = FullRun(graph, rev)

\* ------------------------------------------------------------ properties
\* What the properties read off the input graph itself.
Nodes == Range(NodeList)
Out(s, p) == { t[3] : t \in { x \in graph : x[1] = s /\ x[2] = p } }
PathsOf(q, p1, p2) == UNION { { <<m, o>> : o \in Out(m, p2) } : m \in Out(q, p1) }
DatasetNodes == { d \in Nodes : <<d, RDF_TYPE_TERM, DATS_DATASET_TERM>> \in graph }
TitleCount ==
    Cardinality({ m \in DatasetNodes \X {GTEX_TITLE, TOPMED_TITLE} :
                    <<m[1], TITLE_TERM, m[2]>> \in graph })
MatchedTitle ==
    CHOOSE t \in {GTEX_TITLE, TOPMED_TITLE} :
        \E d \in DatasetNodes : <<d, TITLE_TERM, t>> \in graph
PastTopLevel == pc \notin {"find_datasets", "top_level"}
TopLevelMsg == "found N top-level DATS Datasets"

\* C1: when the number of (Dataset, title) matches is not 1 the run ends at
\* the top-level check with the "found N top-level DATS Datasets" fatal and
\* exit code 1, with no hierarchy table built, no Dataset passed through file
\* linking and nothing printed; when it is 1 the check logs nothing and the
\* Project column of every data row is the matched title.
TopLevelCountDecides ==
    PastTopLevel =>
        IF TitleCount # 1
        THEN /\ pc = "exited" /\ exit_code = 1
             /\ log = <<Fatal(TopLevelMsg, NumStr(TitleCount))>>
             /\ out = <<>>
             /\ DOMAIN ds_to_study = {} /\ DOMAIN study_to_groups = {}
             /\ DOMAIN study_group_to_name = {}
             /\ DOMAIN study_group_to_subjects = {}
             /\ DOMAIN subject_to_name = {} /\ DOMAIN subject_to_chars = {}
             /\ DOMAIN subject_to_files = {} /\ fidx = 0 /\ ridx = 0
        ELSE /\ \A i \in DOMAIN log : log[i].msg # TopLevelMsg
             /\ \A i \in 2..Len(out) : out[i].cols[1] = MatchedTitle

\* C1 witness: two title matches, and the run has ended at the check
TwoTopLevelAborted ==
    /\ Exited /\ TitleCount = 2 /\ exit_code = 1
    /\ log = <<Fatal(TopLevelMsg, "2")>>

SizesOf(d) == { x[2] : x \in PathsOf(d, SDO_DISTRIBUTIONS_TERM, SDO_SIZE_TERM) }
SizesDiffer(d) == Cardinality(SizesOf(d)) > 1
AnySizesDiffer == \E d \in DatasetNodes : SizesDiffer(d)
SizeFatal == Fatal("file size mismatch", "")

\* C2 as stated: with one top-level Dataset and a Dataset whose Distributions
\* report two sizes, the run ends with the size-mismatch fatal and exit code 1
\* and no data row is printed.
SizeMismatchReported ==
    (PastTopLevel /\ TitleCount = 1 /\ AnySizesDiffer) =>
        /\ pc # "render" /\ Len(out) <= 1
        /\ Exited => (exit_code = 1 /\ log = <<SizeFatal>>)

\* C2 amended: with one top-level Dataset and a Dataset whose Distributions
\* report two sizes, the run ends with exit code 1 in the file-linking loop,
\* no later than at the first such Dataset visited, before the heading line
\* or any data row is printed; the diagnostic is the size-mismatch fatal
\* exactly when the run ends at such a Dataset, and otherwise the abort of a
\* Dataset visited earlier.
SizeMismatchStopsBeforeOutput ==
    (PastTopLevel /\ TitleCount = 1 /\ AnySizesDiffer) =>
        /\ out = <<>> /\ pc # "render"
        /\ \A j \in 1..Len(all_datasets) : j < fidx => ~SizesDiffer(all_datasets[j])
        /\ Exited =>
            /\ exit_code = 1 /\ Len(log) = 1 /\ fidx \in 1..Len(all_datasets)
            /\ (log = <<SizeFatal>>) <=> SizesDiffer(all_datasets[fidx])

\* C2 witness: a Dataset has been linked to its subject, the next one
\* reports two sizes, and the run has ended with nothing printed
SizeMismatchAfterLinking ==
    /\ Exited /\ TitleCount = 1 /\ log = <<SizeFatal>> /\ exit_code = 1
    /\ DOMAIN subject_to_files # {} /\ out = <<>>

\* The heading line, the number of characteristic columns, and the fields
\* of a data row.
Heading == out[1].cols
NumCharCols == Len(Heading) - 11
TrailingCols(row) == SubSeq(row.cols, Len(row.cols) - 6, Len(row.cols))
RowsOf(d, g, s) == { k \in 2..Len(out) : out[k].src = <<d, g, s>> }
HeaderPrinted == Len(out) >= 1

\* the subjects the renderer is to print: (Dataset, group, subject)
RenderedSubjects ==
    { x \in Nodes \X Nodes \X Nodes :
        /\ x[1] \in Range(datasets)
        /\ x[2] \in Range(study_to_groups[ds_to_study[x[1]]])
        /\ x[3] \in Range(study_group_to_subjects[x[2]]) }

\* C3 as stated: in a run that has passed the fatal checks and printed the
\* heading line, every Subject of a retained group of a retained Dataset that
\* has no FileInfo has exactly one row, whose seven trailing columns are "";
\* also a Subject without a name.
FilelessSubjectOneRow ==
    (Exited /\ HeaderPrinted) =>
        \A x \in RenderedSubjects :
            x[3] \notin DOMAIN subject_to_files =>
                /\ Cardinality(RowsOf(x[1], x[2], x[3])) = 1
                /\ \A k \in RowsOf(x[1], x[2], x[3]) :
                      TrailingCols(out[k]) = <<"", "", "", "", "", "", "">>

\* the sort fields of a data row
RowId(r) == LexRank(r.cols[2])
RowGroup(r) == LexRank(r.cols[3])
RowSubject(r) == LexRank(r.cols[4])
RowFileKey(r) ==
    <<Rank0(r.cols[NumCharCols + 5]), Rank0(r.cols[NumCharCols + 7]),
      Rank0(r.cols[NumCharCols + 10])>>

\* C4: any two consecutive data rows are in the nested order: the Dataset
\* identifiers ascend; within one Dataset the group names ascend; within one
\* group of it the subject names ascend; within one subject of it the keys
\* (anatomical part name, datatype, S3 URI) ascend, compared left to right.
RowsNestedOrder ==
    \A k \in 2..(Len(out) - 1) :
        LET a == out[k]
            b == out[k + 1]
        IN  /\ RowId(a) <= RowId(b)
            /\ a.src[1] = b.src[1] => RowGroup(a) <= RowGroup(b)
            /\ (a.src[1] = b.src[1] /\ a.src[2] = b.src[2]) =>
                    RowSubject(a) <= RowSubject(b)
            /\ a.src = b.src => ~KeyLess(RowFileKey(b), RowFileKey(a))

\* C4 witness: a completed run that printed rows of two Datasets, of two
\* groups of one Dataset, of two subjects of one group, and two data files of
\* one subject whose keys differ
SortedRowsPrinted ==
    /\ Exited /\ exit_code = 0
    /\ \E k \in 2..(Len(out) - 1) : out[k].src[1] # out[k + 1].src[1]
    /\ \E k \in 2..(Len(out) - 1) :
          out[k].src[1] = out[k + 1].src[1] /\ out[k].src[2] # out[k + 1].src[2]
    /\ \E k \in 2..(Len(out) - 1) :
          /\ out[k].src[1] = out[k + 1].src[1] /\ out[k].src[2] = out[k + 1].src[2]
          /\ out[k].src[3] # out[k + 1].src[3]
    /\ \E k \in 2..(Len(out) - 1) :
          out[k].src = out[k + 1].src /\ KeyLess(RowFileKey(out[k]), RowFileKey(out[k + 1]))

\* C5 as stated: what a run prints and how it exits does not depend on the
\* order in which the store returns the matches of a pattern: the run under
\* the other order prints the same lines and ends the same way.
OrderIndependent ==
    Exited => /\ OutLines = FullRun(graph, ~rev).out
              /\ exit_code = FullRun(graph, ~rev).exit_code

\* C6: the characteristic columns of the heading line are the names of the
\* retained Characteristics of all subjects, each once and ascending; every
\* data row has as many fields as the heading line, none of them None; and
\* the field under a characteristic name is the subject's value of that name,
\* or "" when the subject has none.
HeaderAndRowsMatchCharacteristics ==
    HeaderPrinted =>
        LET dyn == SubSeq(Heading, 5, Len(Heading) - 7)
        IN  /\ SubSeq(Heading, 1, 4) =
                  <<"Project", "dbGaP_Study", "Study_Group", "Subject_ID">>
            /\ Range(dyn) = UNION { DOMAIN subject_to_chars[s] : s \in DOMAIN subject_to_chars }
            /\ \A i \in 1..(Len(dyn) - 1) : LexRank(dyn[i]) < LexRank(dyn[i + 1])
            /\ \A k \in 2..Len(out) :
                  /\ Len(out[k].cols) = Len(Heading)
                  /\ \A c \in DOMAIN out[k].cols : out[k].cols[c] # None
                  /\ \A c \in 5..(Len(Heading) - 7) :
                        LET chars == subject_to_chars[out[k].src[3]]
                        IN  out[k].cols[c] =
                                IF Heading[c] \in DOMAIN chars
                                THEN chars[Heading[c]].value ELSE ""

\* C6 witness: a completed run with two characteristic columns and a row
\* that has a value under one and "" under the other
CharColumnsFilled ==
    /\ Exited /\ exit_code = 0 /\ NumCharCols = 2
    /\ \E k \in 2..Len(out) : out[k].cols[5] = "" /\ out[k].cols[6] = "v1"

\* The quality nodes of a subject and what each resolves, read off the graph.
QualityNodes(s) == Out(s, HAS_QUALITY_TERM)
ValuesOf(q) == Out(q, DATA_ITEM_TERM)
NamePaths(q) == PathsOf(q, NAME_TERM, SDO_VALUE_TERM)
IdPaths(q) == PathsOf(q, CENTRAL_ID_TERM, SDO_IDENT_TERM)
NameOf(q) == (CHOOSE x \in NamePaths(q) : TRUE)[2]
ValueOf(q) == IF ValuesOf(q) = {} THEN "None" ELSE CHOOSE v \in ValuesOf(q) : TRUE
ExactlyOneEach(q) ==
    /\ Cardinality(ValuesOf(q)) = 1
    /\ Cardinality(NamePaths(q)) = 1 /\ Cardinality(IdPaths(q)) = 1
AtMostOneValue(q) ==
    /\ Cardinality(ValuesOf(q)) <= 1
    /\ Cardinality(NamePaths(q)) = 1 /\ Cardinality(IdPaths(q)) = 1
CharsCollected == fidx >= 1
Members == UNION { Range(study_group_to_subjects[g]) : g \in DOMAIN study_group_to_subjects }
CharNamesOf(s) == IF s \in DOMAIN subject_to_chars THEN DOMAIN subject_to_chars[s] ELSE {}

EndsInSuccessOrFatal ==
    Exited =>
        \/ /\ exit_code = 0 /\ log = <<>> /\ HeaderPrinted
           /\ \A x \in RenderedSubjects : RowsOf(x[1], x[2], x[3]) # {}
        \/ /\ exit_code = 1 /\ Len(log) = 1 /\ log[1].kind = "fatal"

\* The file-linking chain of a Dataset, read off the graph.
AcqsOf(d) ==
    { a \in Out(d, PRODUCED_BY_TERM) :
        <<a, RDF_TYPE_TERM, DATS_DATA_ACQUISITION_TERM>> \in graph }
SampleNodes(d) ==
    UNION { { x[2] : x \in PathsOf(a, HAS_INPUT_TERM, DERIVES_FROM_TERM) } : a \in AcqsOf(d) }
TargetsOf(o2) == Out(o2, DERIVES_FROM_TERM)
AnatPartsOf(o2) ==
    { o3 \in TargetsOf(o2) : <<o3, RDF_TYPE_TERM, SDO_ANATOMICAL_STRUCTURE_TERM>> \in graph }
IdsOf(o3) ==
    { x[2] : x \in PathsOf(o3, CENTRAL_ID_TERM, CENTRAL_ID_TERM) }
\* the Dataset gets as far as the datatype of a FileInfo
ReachesClassification(d) ==
    /\ ~SizesDiffer(d)
    /\ Cardinality(AcqsOf(d)) = 1
    /\ \A o2 \in SampleNodes(d) :
          /\ \A o3 \in AnatPartsOf(o2) : Cardinality(IdsOf(o3)) = 1
          /\ TargetsOf(o2) = {} \/ Cardinality(AnatPartsOf(o2)) = 1
    /\ \E o2 \in SampleNodes(d) : TargetsOf(o2) # {}
\* the URIs of the inputs that contain /wgs/, and /rnaseq/
WgsUris == {"s3://bkt/wgs/f1"}
RnaseqUris == {"s3://bkt/rnaseq/f2"}
ParseFatal(uri) == Fatal("couldn't parse seq type from URI", uri)
StoredFiles == UNION { Range(subject_to_files[s]) : s \in DOMAIN subject_to_files }

\* C9: no FileInfo is stored, and no row printed, without a datatype; in a
\* GTEx-titled run every stored FileInfo has an S3 URI and the datatype "WGS"
\* when it contains /wgs/, else "RNA-Seq" when it contains /rnaseq/; and a
\* Dataset that gets as far as the datatype with an S3 URI containing neither
\* ends the run there, with the "couldn't parse seq type" fatal and exit
\* code 1.  (The Dataset has an S3 URI: without one line 248 raises, which is
\* the subject of C8.)
DatatypeFromS3Uri ==
    /\ \A f \in StoredFiles : f.datatype # None
    /\ HeaderPrinted =>
          \A k \in 2..Len(out) : out[k].cols[NumCharCols + 7] \in {"", "WGS", "RNA-Seq"}
    /\ (PastTopLevel /\ project_name = GTEX_TITLE) =>
          /\ \A f \in StoredFiles :
                /\ f.S3_URI \in WgsUris \cup RnaseqUris
                /\ f.datatype = IF f.S3_URI \in WgsUris THEN "WGS" ELSE "RNA-Seq"
          /\ \A j \in 1..Len(all_datasets) :
                LET d == all_datasets[j]
                    u == Distributions(graph, rev, d).s3_URI
                IN  (ReachesClassification(d) /\ u # None /\ u \notin WgsUris \cup RnaseqUris)
                    => /\ fidx <= j
                       /\ (fidx = j /\ Exited) =>
                              (exit_code = 1 /\ log = <<ParseFatal(u)>>)

\* C9 witness: one Dataset has given its subject a "WGS" FileInfo and the
\* next one, whose S3 URI has neither directory, has ended the run
UnclassifiedAfterWgs ==
    /\ Exited /\ exit_code = 1 /\ log = <<ParseFatal("s3://bkt/x/f3")>>
    /\ \E f \in StoredFiles : f.datatype = "WGS" /\ f.S3_URI = "s3://bkt/wgs/f1"

\* C10 as stated: the pass of the file-linking loop for a Dataset that is
\* linked to no DataAcquisition or to several adds no FileInfo, aborts
\* nothing and goes on to the next Dataset.
NoAcquisitionSkipsQuietly ==
    [][ (pc = "data_files" /\ fidx <= Len(all_datasets)
            /\ Cardinality(AcqsOf(all_datasets[fidx])) # 1)
        => /\ subject_to_files' = subject_to_files
           /\ exit_code' = Running /\ log' = log
           /\ fidx' = fidx + 1 /\ pc' = "data_files" ]_vars

\* C10 amended: the pass of the file-linking loop for a Dataset that is
\* linked to no DataAcquisition or to several adds no FileInfo; it goes on
\* to the next Dataset without a diagnostic unless the Distributions of the
\* Dataset report two sizes, which ends the run with the size-mismatch fatal
\* before the DataAcquisitions are counted.
NoAcquisitionSkipsUnlessSizesDiffer ==
    [][ (pc = "data_files" /\ fidx <= Len(all_datasets)
            /\ Cardinality(AcqsOf(all_datasets[fidx])) # 1)
        => /\ subject_to_files' = subject_to_files
           /\ IF SizesDiffer(all_datasets[fidx])
              THEN exit_code' = 1 /\ log' = <<SizeFatal>> /\ pc' = "exited"
              ELSE /\ exit_code' = Running /\ log' = log
                   /\ fidx' = fidx + 1 /\ pc' = "data_files" ]_vars

\* C10 witness: a Dataset with two DataAcquisitions has been passed over, the
\* other Dataset has given the subject its only FileInfo, and the run is done
TwoAcquisitionsSkipped ==
    /\ Exited /\ exit_code = 0
    /\ \E j \in 1..Len(all_datasets) : Cardinality(AcqsOf(all_datasets[j])) = 2
    /\ \E s \in DOMAIN subject_to_files : Len(subject_to_files[s]) = 1

=============================================================================
